---- MODULE Spec2Model ----
(***************************************************************************)
(* Model of the error-to-response dispatch of package httperr              *)
(* (github.com/ungerik/go-httpx), latest revision of each file.            *)
(*                                                                         *)
(* An error value is the sequence of the layers of its wrap chain,         *)
(* outermost first; the nil error is the empty sequence.  A string is a    *)
(* sequence of tokens, so that joining, prefixing and appending text are    *)
(* computed and not assumed.  The response writer is the sequence of the    *)
(* net/http write calls that were issued on it during one call.             *)
(***************************************************************************)
EXTENDS Integers, Sequences, FiniteSets, TLC

\* ---------------------------------------------------------------- bounds
MaxWrap == 3

MaxRegistrations == 2

MaxHandlers == 2

MaxGoroutines == 2

MaxDeliveries == 2
\* the most parameters of a function wrapped by package calling
MaxArgs == 2

\* ------------------------------------------------------ net/http constants
StatusBadRequest == 400

StatusNotFound == 404

StatusTooManyRequests == 429

StatusInternalServerError == 500

StatusTemporaryRedirect == 307

StatusPermanentRedirect == 308

StatusMovedPermanently == 301

NL == "\n"

\* http.StatusText: the registered name of the code, "" for an unknown code
StatusText(code) ==
    CASE code = 301 -> <<"Moved Permanently">>
      [] code = 302 -> <<"Found">>
      [] code = 307 -> <<"Temporary Redirect">>
      [] code = 308 -> <<"Permanent Redirect">>
      [] code = 400 -> <<"Bad Request">>
      [] code = 404 -> <<"Not Found">>
      [] code = 429 -> <<"Too Many Requests">>
      [] code = 500 -> <<"Internal Server Error">>
      [] OTHER -> <<>>

\* the %d rendering of a status code
Itoa(code) ==
    CASE code = 0 -> "0"
      [] code = 301 -> "301"
      [] code = 302 -> "302"
      [] code = 307 -> "307"
      [] code = 308 -> "308"
      [] code = 400 -> "400"
      [] code = 404 -> "404"
      [] code = 429 -> "429"
      [] code = 500 -> "500"
      [] OTHER -> "599"

\* strings.Join(elems, sep) on token sequences
RECURSIVE Join(_, _)
Join(elems, sep) ==
    IF elems = <<>> THEN <<>>
    ELSE IF Len(elems) = 1 THEN elems[1]
    ELSE elems[1] \o <<sep>> \o Join(Tail(elems), sep)

\* fmt.Sprintf for the verbs used here: every verb token takes the next
\* argument's text, every other token is copied
RECURSIVE Sprintf(_, _)
Sprintf(format, a) ==
    IF format = <<>> THEN <<>>
    ELSE IF Head(format) \in {"%s", "%v", "%+v"} /\ a # <<>>
         THEN Head(a) \o Sprintf(Tail(format), Tail(a))
         ELSE <<Head(format)>> \o Sprintf(Tail(format), a)

\* ------------------------------------------------------------ error values
NilErr == <<>>

\* sentinel error values known to the program and its callers
Sentinels == {"ErrNotExist", "ErrNoRows", "ErrRateLimited", "ErrRecordNotFound"}

\* ErrRecordNotFound = fmt.Errorf("record not found: %w", sql.ErrNoRows):
\* a sentinel that itself wraps another sentinel
SentinelCause(s) == IF s = "ErrRecordNotFound" THEN "ErrNoRows" ELSE "none"

SentinelText(s) ==
    CASE s = "ErrNotExist" -> <<"file does not exist">>
      [] s = "ErrNoRows" -> <<"sql: no rows in result set">>
      [] s = "ErrRateLimited" -> <<"rate limited">>
      [] OTHER -> <<"record not found">>

\* the error value of sentinel s: its own layer followed by what it wraps
SentinelErr(s) ==
    IF SentinelCause(s) = "none"
    THEN <<[kind |-> "sentinel", id |-> s]>>
    ELSE <<[kind |-> "sentinel", id |-> s], [kind |-> "sentinel", id |-> SentinelCause(s)]>>

\* errors.New(text)
ErrorsNew(text) == <<[kind |-> "errorString", text |-> text]>>

\* fmt.Errorf(text + ": %w", err)
Wrap(text, err) == <<[kind |-> "wrapError", text |-> text]>> \o err

\* New joining the fragments with spaces
New_SpaceJoined(statusCode, statusText) ==
    <<[kind |-> "statusCodeAndText", statusCode |-> statusCode,
       statusText |-> Join(statusText, " ")]>>

\* httperr.New(statusCode, statusText...)
New(statusCode, statusText) ==
    <<[kind |-> "statusCodeAndText", statusCode |-> statusCode,
       statusText |-> Join(statusText, NL)]>>

\* httperr.Errorf(statusCode, format, a...)
Errorf(statusCode, format, a) ==
    <<[kind |-> "statusCodeAndText", statusCode |-> statusCode,
       statusText |-> Sprintf(format, a)]>>

\* httperr.Redirect(statusCode, targetURL)
Redirect(statusCode, targetURL) ==
    <<[kind |-> "redirect", statusCode |-> statusCode, targetURL |-> targetURL]>>

\* TemporaryRedirect answering 302 Found
TemporaryRedirect_Found(targetURL) == Redirect(302, targetURL)

\* httperr.TemporaryRedirect(targetURL)
TemporaryRedirect(targetURL) == Redirect(StatusTemporaryRedirect, targetURL)

\* httperr.PermanentRedirect(targetURL)
PermanentRedirect(targetURL) == Redirect(StatusPermanentRedirect, targetURL)

\* httperr.JSON(statusCode, body); body.marshals says whether
\* json.MarshalIndent succeeds on it
JSON(statusCode, body) ==
    <<[kind |-> "statusCodeAndJSON", statusCode |-> statusCode, body |-> body]>>

\* CustomError{StatusCode: statusCode, Message: "Validation failed", cause: err}:
\* an application type that is an httperr.Response and also wraps its cause
CustomError(statusCode, err) ==
    <<[kind |-> "CustomError", statusCode |-> statusCode]>> \o err

\* httperr.DontLog(err)
DontLog(err) ==
    IF err = NilErr THEN NilErr
    ELSE <<[kind |-> "errDontLog"]>> \o err

\* the text of the error json.MarshalIndent returns for a body it cannot encode
MarshalErrorText == "json: unsupported type"

\* Unwrap as it would be if errDontLog had no Unwrap method
Unwrap_DontLogOpaque(err) ==
    LET e == Head(err) IN
    CASE e.kind = "wrapError" -> Tail(err)
      [] e.kind = "CustomError" -> Tail(err)
      [] e.kind = "sentinel" /\ SentinelCause(e.id) # "none" -> Tail(err)
      [] OTHER -> NilErr

\* the Unwrap method of the outermost layer; nil for a type without one
Unwrap(err) ==
    LET e == Head(err) IN
    CASE e.kind = "errDontLog" -> Tail(err)
      [] e.kind = "wrapError" -> Tail(err)
      [] e.kind = "CustomError" -> Tail(err)
      [] e.kind = "sentinel" /\ SentinelCause(e.id) # "none" -> Tail(err)
      [] OTHER -> NilErr

\* the Error method of the outermost layer
RECURSIVE ErrorText(_)
ErrorText(err) ==
    LET e == Head(err) IN
    CASE e.kind = "errorString" -> e.text
      [] e.kind = "wrapError" -> <<e.text, ": ">> \o ErrorText(Tail(err))
      [] e.kind = "errDontLog" -> ErrorText(Tail(err))
      [] e.kind = "CustomError" -> <<"Validation failed">>
      [] e.kind = "sentinel" ->
            IF SentinelCause(e.id) = "none" THEN SentinelText(e.id)
            ELSE SentinelText(e.id) \o <<": ">> \o ErrorText(Tail(err))
      [] e.kind = "statusCodeAndText" ->
            IF e.statusText = <<>> THEN StatusText(e.statusCode) ELSE e.statusText
      [] e.kind = "redirect" ->
            <<Itoa(e.statusCode), " redirect to ", e.targetURL>>
      [] OTHER ->
            <<Itoa(e.statusCode), ": ">> \o
            (IF e.body.marshals THEN <<e.body.text>>
             ELSE <<"can't marshall error as JSON because", ": ", MarshalErrorText>>)

\* whether the dynamic type of the outermost layer implements http.Handler
ImplementsHTTPHandler(e) ==
    e.kind \in {"statusCodeAndText", "redirect", "statusCodeAndJSON", "CustomError"}

\* a type assertion err.(http.Handler) in place of errors.As
AsHTTPHandler_TypeAssert(err) ==
    IF err = NilErr THEN NilErr
    ELSE IF ImplementsHTTPHandler(Head(err)) THEN err
    ELSE NilErr

\* errors.As(err, &handler) with handler of type http.Handler: the first
\* error of the chain that is an http.Handler, NilErr when there is none
RECURSIVE AsHTTPHandler(_)
AsHTTPHandler(err) ==
    IF err = NilErr THEN NilErr
    ELSE IF ImplementsHTTPHandler(Head(err)) THEN err
    ELSE AsHTTPHandler(Unwrap(err))

\* a type assertion err.(errDontLog) in place of errors.As
AsErrDontLog_TypeAssert(err) ==
    IF err = NilErr THEN FALSE
    ELSE Head(err).kind = "errDontLog"

\* errors.As(err, &dontLog) with dontLog of type errDontLog
RECURSIVE AsErrDontLog(_)
AsErrDontLog(err) ==
    IF err = NilErr THEN FALSE
    ELSE IF Head(err).kind = "errDontLog" THEN TRUE
    ELSE AsErrDontLog(Unwrap(err))

\* a comparison err == target in place of errors.Is
ErrorsIs_NoUnwrap(err, target) == err # NilErr /\ err = target

\* errors.Is(err, target)
RECURSIVE ErrorsIs(_, _)
ErrorsIs(err, target) ==
    IF err = NilErr THEN FALSE
    ELSE IF err = target THEN TRUE
    ELSE ErrorsIs(Unwrap(err), target)

\* httperr.ShouldLog(err)
ShouldLog(err) ==
    IF err = NilErr THEN FALSE
    ELSE ~AsErrDontLog(err)

\* ------------------------------------------------------------ input domains
OpaqueTexts == {<<"connection refused">>, <<"disk full">>}

\* 599 is a code without a registered status text
StatusCodes == {StatusBadRequest, StatusNotFound, 599}

StatusTexts == {<<>>, <<<<"Invalid email format">>>>, <<<<"first line">>, <<"second line">>>>}

RedirectErrs ==
    {Redirect(StatusMovedPermanently, "/new-location"),
     TemporaryRedirect("/login"), PermanentRedirect("/new-location")}

JSONBodies == {[text |-> "{detail}", marshals |-> TRUE], [text |-> "chan", marshals |-> FALSE]}

\* errors as they are first created
BaseErrs ==
    {ErrorsNew(t) : t \in OpaqueTexts}
    \cup {SentinelErr(s) : s \in Sentinels}
    \cup {New(c, t) : c \in StatusCodes, t \in StatusTexts}
    \cup {Errorf(StatusBadRequest, <<"User ", "%s", " not found">>, <<<<"alice">>>>)}
    \cup RedirectErrs
    \cup {JSON(StatusBadRequest, b) : b \in JSONBodies}

\* the non-nil errors with at most n wrapping layers around a base error
RECURSIVE ErrsUpTo(_)
ErrsUpTo(n) ==
    IF n = 0 THEN BaseErrs
    ELSE LET inner == ErrsUpTo(n - 1) IN
         inner \cup {Wrap("ctx", e) : e \in inner} \cup {DontLog(e) : e \in inner}
               \cup {CustomError(StatusTooManyRequests, e) : e \in inner}

Errs == ErrsUpTo(MaxWrap)

\* errors whose status code is no HTTP status code
MalformedBaseErrs ==
    {New(0, <<>>), Redirect(0, "/login"),
     JSON(0, [text |-> "{detail}", marshals |-> TRUE])}

MalformedErrs ==
    MalformedBaseErrs \cup {Wrap("ctx", e) : e \in MalformedBaseErrs}
                      \cup {DontLog(e) : e \in MalformedBaseErrs}

\* values a recover() can return
PanicValues ==
    {[type |-> "nil"]}
    \cup {[type |-> "error", err |-> e] : e \in ErrsUpTo(1)}
    \cup {[type |-> "string", text |-> "index out of range"],
          [type |-> "Stringer", text |-> "stringer text"],
          [type |-> "other", text |-> "{Code:42}"]}

\* AsError turning an error value into a new error with the same text
AsError_Stringify(val) ==
    CASE val.type = "nil" -> NilErr
      [] val.type = "error" -> ErrorsNew(ErrorText(val.err))
      [] val.type = "string" -> ErrorsNew(<<val.text>>)
      [] val.type = "Stringer" -> ErrorsNew(<<val.text>>)
      [] OTHER -> ErrorsNew(Sprintf(<<"%+v">>, <<<<val.text>>>>))

\* httperr.AsError(val)
AsError(val) ==
    CASE val.type = "nil" -> NilErr
      [] val.type = "error" -> val.err
      [] val.type = "string" -> ErrorsNew(<<val.text>>)
      [] val.type = "Stringer" -> ErrorsNew(<<val.text>>)
      [] OTHER -> ErrorsNew(Sprintf(<<"%+v">>, <<<<val.text>>>>))

\* ------------------------------------------------------- the response writer
\* the codes ResponseWriter.WriteHeader accepts; it panics on any other
ValidStatusCode(code) == code >= 100 /\ code <= 999

\* the panic of ResponseWriter.WriteHeader(code) for a code it does not accept;
\* nothing has been sent when it is raised
InvalidWriteHeader(code) ==
    [call |-> "panic", text |-> <<"invalid WriteHeader code ", Itoa(code)>>, code |-> code]

\* the panic of a method call on a nil http.Handler
NilDereference ==
    [call |-> "panic", text |-> <<"invalid memory address or nil pointer dereference">>,
     code |-> 0]

\* the call sequence writer ends in a panic
Panics(writer) == writer # <<>> /\ writer[Len(writer)].call = "panic"

\* http.Error(writer, error, code)
HTTPError(error, code) ==
    IF ValidStatusCode(code) THEN [call |-> "http.Error", text |-> error, code |-> code]
    ELSE InvalidWriteHeader(code)

\* http.Redirect(writer, request, url, code)
HTTPRedirect(url, code) ==
    IF ValidStatusCode(code) THEN [call |-> "http.Redirect", text |-> <<url>>, code |-> code]
    ELSE InvalidWriteHeader(code)

\* Header().Set("Content-Type", contenttype.JSON); WriteHeader(code); Write(body)
WriteJSONBody(body, code) ==
    IF ValidStatusCode(code) THEN [call |-> "WriteJSON", text |-> <<body>>, code |-> code]
    ELSE InvalidWriteHeader(code)

\* ------------------------------------------------------------ configuration
\* handlers that can be stored in SentinelHandlers: each one is
\* http.HandlerFunc(func(w, _) { http.Error(w, error, code) })
FileNotFoundHandler == [error |-> <<"Requested file not found">>, code |-> StatusNotFound]

RowNotFoundHandler == [error |-> <<"Requested database row not found">>, code |-> StatusNotFound]

RateLimitedHandler == [error |-> <<"Rate limited">>, code |-> StatusTooManyRequests]

RecordGoneHandler == [error |-> <<"Record is gone">>, code |-> StatusBadRequest]

RegistrableHandlers == {RateLimitedHandler, RecordGoneHandler}

\* a nil http.Handler stored as a value of SentinelHandlers
NilHandler == [error |-> <<>>, code |-> 0]

\* SentinelHandlers as initialised by the package
DefaultSentinelHandlers ==
    [s \in {"ErrNotExist", "ErrNoRows"} |->
        IF s = "ErrNotExist" THEN FileNotFoundHandler ELSE RowNotFoundHandler]

DebugShowInternalErrorsInResponseFormat == <<NL, "%+v">>

\* implementations of httperr.Handler
HandlerKinds == {"DefaultHandlerImpl", "customErrorHandler", "customHandler1"}

\* SentinelHandlers: map[error]http.Handler, as a function from sentinel to handler
\* DebugShowInternalErrorsInResponse: the bool of that name
\* DefaultHandler: the Handler used by Handle
\* registrations: the number of writes to SentinelHandlers so far
\* lastWrite: the sentinel and handler of the latest write to SentinelHandlers
\* CatchPanics: the bool of that name of package respond
\* call: the call made on the current response writer and what it did
\* goroutines: for each goroutine that calls Handle concurrently, its error,
\*   its own writer and its position in the call
\* notified: the signals passed to signal.Notify
\* shutdown: the channel `shutdown` of GracefulShutdownServerOnSignal
\* listener: the arguments and the position of the goroutine it starts
\* delivered: the number of notified signals the process has been sent
\* events: the calls made by that goroutine on the loggers and the server
\* wrapper: the last wrapper made by package calling and what its call did
VARIABLES SentinelHandlers, DebugShowInternalErrorsInResponse, DefaultHandler, registrations, lastWrite, CatchPanics, call, goroutines, notified, shutdown, listener, delivered, events, wrapper

vars == <<SentinelHandlers, DebugShowInternalErrorsInResponse, DefaultHandler,
          registrations, lastWrite, CatchPanics, call,
          goroutines, notified, shutdown, listener, delivered, events, wrapper>>

\* the state outside package httperr's and package respond's single call
Background == <<goroutines, notified, shutdown, listener, delivered, events, wrapper>>

\* ------------------------------------------------------------ the dispatcher
\* what one call did: the calls issued on the writer, the renderers it
\* invoked, the Handlers it invoked, and its return value
Outcome(writer, invoked, called, ret) ==
    [writer |-> writer, invoked |-> invoked, called |-> called, ret |-> ret]

Nothing == Outcome(<<>>, <<>>, <<>>, FALSE)

\* WriteInternalServerError adding the error text whatever the debug flag is
WriteInternalServerError_AlwaysDetail(err) ==
    <<HTTPError(StatusText(StatusInternalServerError) \o
                Sprintf(DebugShowInternalErrorsInResponseFormat, <<ErrorText(err)>>),
                StatusInternalServerError)>>

\* WriteInternalServerError(err, writer)
WriteInternalServerError(err) ==
    LET message == StatusText(StatusInternalServerError) \o
                   (IF DebugShowInternalErrorsInResponse
                    THEN Sprintf(DebugShowInternalErrorsInResponseFormat, <<ErrorText(err)>>)
                    ELSE <<>>)
    IN <<HTTPError(message, StatusInternalServerError)>>

\* WriteAsJSON writing the status code before it finds that the body does not
\* marshal
WriteAsJSON_HeaderFirst(body, statusCode) ==
    IF ~body.marshals
    THEN <<WriteJSONBody("", statusCode)>> \o
         WriteInternalServerError(
            Wrap("can't marshall error as JSON because", ErrorsNew(<<MarshalErrorText>>)))
    ELSE <<WriteJSONBody(body.text, statusCode)>>

\* WriteAsJSON(err, statusCode, writer)
WriteAsJSON(body, statusCode) ==
    IF ~body.marshals
    THEN WriteInternalServerError(
            Wrap("can't marshall error as JSON because", ErrorsNew(<<MarshalErrorText>>)))
    ELSE <<WriteJSONBody(body.text, statusCode)>>

\* ServeHTTP of statusCodeAndText writing 500 in place of its own status code
ServeHTTP_FixedStatus(h) ==
    LET e == Head(h) IN
    CASE e.kind = "statusCodeAndText" -> <<HTTPError(ErrorText(h), StatusInternalServerError)>>
      [] e.kind = "redirect" -> <<HTTPRedirect(e.targetURL, e.statusCode)>>
      [] e.kind = "CustomError" -> <<WriteJSONBody("{error: Validation failed}", e.statusCode)>>
      [] OTHER -> WriteAsJSON(e.body, e.statusCode)

\* the ServeHTTP method of the error value h (its outermost layer)
ServeHTTP(h) ==
    LET e == Head(h) IN
    CASE e.kind = "statusCodeAndText" -> <<HTTPError(ErrorText(h), e.statusCode)>>
      [] e.kind = "redirect" -> <<HTTPRedirect(e.targetURL, e.statusCode)>>
      [] e.kind = "CustomError" -> <<WriteJSONBody("{error: Validation failed}", e.statusCode)>>
      [] OTHER -> WriteAsJSON(e.body, e.statusCode)

\* the ServeHTTP method of a handler stored in SentinelHandlers
SentinelServeHTTP(handler) ==
    IF handler = NilHandler THEN <<NilDereference>>
    ELSE <<HTTPError(handler.error, handler.code)>>

\* the value a call returns after the renderer it invoked has written writer:
\* true, or none (FALSE in the model) when the renderer panicked
Returned(writer) == ~Panics(writer)

Renderer(name, of) == [renderer |-> name, of |-> of]

\* WriteHandler consulting SentinelHandlers before errors.As
WriteHandler_SentinelFirst(err) ==
    IF err = NilErr THEN {Nothing}
    ELSE LET matching == {s \in DOMAIN SentinelHandlers : ErrorsIs(err, SentinelErr(s))}
             handler == AsHTTPHandler(err) IN
         IF matching # {}
         THEN {Outcome(SentinelServeHTTP(SentinelHandlers[s]),
                       <<Renderer("SentinelHandler", s)>>, <<>>,
                       Returned(SentinelServeHTTP(SentinelHandlers[s]))) : s \in matching}
         ELSE IF handler # NilErr
         THEN {Outcome(ServeHTTP(handler), <<Renderer("ServeHTTP", Head(handler).kind)>>,
                       <<>>, Returned(ServeHTTP(handler)))}
         ELSE {Nothing}

\* WriteHandler(err, writer, request): the set of its possible outcomes;
\* the range over the map SentinelHandlers visits the keys in any order
WriteHandler(err) ==
    IF err = NilErr THEN {Nothing}
    ELSE LET handler == AsHTTPHandler(err) IN
         IF handler # NilErr
         THEN {Outcome(ServeHTTP(handler), <<Renderer("ServeHTTP", Head(handler).kind)>>,
                       <<>>, Returned(ServeHTTP(handler)))}
         ELSE LET matching == {s \in DOMAIN SentinelHandlers : ErrorsIs(err, SentinelErr(s))} IN
              IF matching # {}
              THEN {Outcome(SentinelServeHTTP(SentinelHandlers[s]),
                            <<Renderer("SentinelHandler", s)>>, <<>>,
                            Returned(SentinelServeHTTP(SentinelHandlers[s]))) : s \in matching}
              ELSE {Nothing}

\* DefaultHandlerImpl going on to WriteInternalServerError after WriteHandler
\* has written
DefaultHandlerImpl_FallThrough(err) ==
    IF err = NilErr THEN {Nothing}
    ELSE {IF Panics(o.writer) THEN o
          ELSE Outcome(o.writer \o WriteInternalServerError(err),
                       o.invoked \o <<Renderer("WriteInternalServerError", "")>>,
                       <<>>, TRUE) : o \in WriteHandler(err)}

\* DefaultHandlerImpl(err, writer, request)
DefaultHandlerImpl(err) ==
    IF err = NilErr THEN {Nothing}
    ELSE {IF o.ret \/ Panics(o.writer) THEN o
          ELSE Outcome(o.writer \o WriteInternalServerError(err),
                       o.invoked \o <<Renderer("WriteInternalServerError", "")>>,
                       <<>>, TRUE) : o \in WriteHandler(err)}

\* handler.HandleError(err, writer, request) for each Handler implementation
HandleError(handler, err) ==
    CASE handler = "DefaultHandlerImpl" -> DefaultHandlerImpl(err)
      [] handler = "customErrorHandler" -> {Nothing}
      [] OTHER ->
            IF ErrorsIs(err, SentinelErr("ErrRateLimited"))
            THEN {Outcome(<<HTTPError(<<"Rate limited">>, StatusTooManyRequests)>>,
                          <<>>, <<>>, TRUE)}
            ELSE {Nothing}

\* Handle(err, writer, request)
Handle(err) ==
    IF err = NilErr THEN {Nothing}
    ELSE {[o EXCEPT !.called = <<DefaultHandler>>] : o \in HandleError(DefaultHandler, err)}

\* HandlePanic(recoverResult, writer, request)
HandlePanic(recoverResult) == Handle(AsError(recoverResult))

\* the loop of ForEachHandler leaving after its first iteration
ForEachRange_FirstOnly(err, handlers, acc) ==
    IF handlers = <<>> THEN {acc}
    ELSE {Outcome(acc.writer \o o.writer, acc.invoked \o o.invoked,
                  Append(acc.called, Head(handlers)),
                  ~Panics(o.writer) /\ (acc.ret \/ o.ret))
          : o \in HandleError(Head(handlers), err)}

\* the loop of ForEachHandler over the remaining handlers
RECURSIVE ForEachRange(_, _, _)
ForEachRange(err, handlers, acc) ==
    IF handlers = <<>> \/ Panics(acc.writer) THEN {acc}
    ELSE UNION {ForEachRange(err, Tail(handlers),
                    Outcome(acc.writer \o o.writer, acc.invoked \o o.invoked,
                            Append(acc.called, Head(handlers)),
                            ~Panics(o.writer) /\ (acc.ret \/ o.ret)))
                : o \in HandleError(Head(handlers), err)}

\* ForEachHandler without its nil check
ForEachHandler_NoNilCheck(err, handlers) == ForEachRange(err, handlers, Nothing)

\* ForEachHandler(err, writer, request, handlers...)
ForEachHandler(err, handlers) ==
    IF err = NilErr THEN {Nothing}
    ELSE ForEachRange(err, handlers, Nothing)

\* ------------------------------------------------------------------ actions
Call(op, err, val, handlers, o) ==
    [op |-> op, err |-> err, val |-> val, handlers |-> handlers,
     writer |-> o.writer, invoked |-> o.invoked, called |-> o.called, ret |-> o.ret]

Idle == Call("idle", NilErr, [type |-> "nil"], <<>>, Nothing)

HandlerSeqs == UNION {[1..n -> HandlerKinds] : n \in 0..MaxHandlers}

\* the goroutines that call Handle concurrently
Goroutines == 1..MaxGoroutines

\* a goroutine that is not inside a call of Handle
IdleGoroutine ==
    [pc |-> "idle", err |-> NilErr, handler |-> "none", writer |-> <<>>, invoked |-> <<>>,
     called |-> <<>>, ret |-> FALSE]

\* the errors the concurrent calls are given
ConcurrentErrs ==
    {NilErr, New(StatusNotFound, <<>>), Wrap("ctx", SentinelErr("ErrRateLimited")),
     ErrorsNew(<<"disk full">>), JSON(StatusBadRequest, [text |-> "chan", marshals |-> FALSE])}

\* the package variables written at any time
NoCallInFlight_Unchecked == TRUE

\* no call of Handle is in flight in any goroutine: the program writes the
\* package variables only then
NoCallInFlight == \A g \in Goroutines : goroutines[g].pc = "idle"

\* os.Signal values
Signals == {"SIGHUP", "SIGINT", "SIGTERM", "SIGUSR1"}

\* the signals used when none are passed
DefaultSignals == {"SIGHUP", "SIGINT", "SIGTERM"}

\* the capacity of the channel `shutdown`
ShutdownChanCap == 1

\* GracefulShutdownServerOnSignal has not been called
NoListener ==
    [pc |-> "none", signalLog |-> FALSE, errorLog |-> FALSE, timeout |-> 0,
     sig |-> "none", err |-> "nil"]

\* values of the timeout parameter, in seconds; time.Duration is signed
Timeouts == {-1, 0, 30}

\* a context is the set of the timeouts that bound it: context.Background()
\* has no deadline
ContextBackground == {}

\* context.WithTimeout(ctx, timeout)
ContextWithTimeout(ctx, timeout) == ctx \cup {timeout}

\* a context bounded by the timeout whatever its value
ShutdownContext_AlwaysTimeout(timeout) ==
    ContextWithTimeout(ContextBackground, timeout)

\* ctx := context.Background(); if timeout > 0 { ctx, cancel = context.WithTimeout(ctx, timeout) }
ShutdownContext(timeout) ==
    IF timeout > 0
    THEN ContextWithTimeout(ContextBackground, timeout)
    ELSE ContextBackground

\* values of the variadic signals parameter
SignalArgs == {{}, {"SIGINT", "SIGTERM"}, {"SIGUSR1"}}

\* what server.Shutdown(ctx) returns
ShutdownResults == {"nil", "context deadline exceeded", "close tcp: use of closed network connection"}

\* a call the listener goroutine makes on a logger, the server or its context
Event(event, sig, deadline, err) ==
    [event |-> event, sig |-> sig, deadline |-> deadline, err |-> err]

\* ----------------------------------------------- package calling: its data
\* the basic parameter types
BasicTypes == {"string", "int", "float64", "bool"}

\* the parameter lists of the functions that are wrapped
ParamLists == UNION {[1..n -> BasicTypes] : n \in 0..MaxArgs}

\* their result lists
ResultLists == {<<>>, <<"error">>, <<"int">>, <<"int", "error">>}

\* what is passed as `function`: a function, a value that is not one, or nil
Functions ==
    {[kind |-> "func", in |-> in, out |-> out] : in \in ParamLists, out \in ResultLists}
    \cup {[kind |-> "int", in |-> <<>>, out |-> <<>>],
          [kind |-> "nil", in |-> <<>>, out |-> <<>>]}

\* the strings a wrapper is called with
Texts == {"Alice", "30", ".5", "true", ""}

\* the variadic stringArgs, one more than any function has parameters
StringArgLists == UNION {[1..n -> Texts] : n \in 0..(MaxArgs + 1)}

\* what a target function that returns an error returns
TargetResults == {"nil", "division by zero"}

\* a Go value of a basic type; a float64 is held in tenths
GoValue(type, num, str, bool) == [type |-> type, num |-> num, str |-> str, bool |-> bool]

\* reflect.Zero(type)
Zero(type) == GoValue(type, 0, "", FALSE)

\* reflect.Value.Interface(): the value itself, which is no pointer to it
Interface(v) == [type |-> v.type, pointer |-> FALSE, value |-> v]

\* the texts fmt scans as a value of a basic type
ValidText(type, text) ==
    CASE type = "string"  -> text # ""
      [] type = "int"     -> text = "30"
      [] type = "float64" -> text \in {"30", ".5"}
      [] type = "bool"    -> text = "true"
      [] OTHER            -> FALSE

\* the error of fmt.Sscan(str, arg), "nil" for none: an operand that is not a
\* pointer cannot be scanned into
Sscan(str, arg) ==
    IF ~arg.pointer THEN "type not a pointer"
    ELSE IF str = "" THEN "unexpected EOF"
    ELSE IF ValidText(arg.type, str) THEN "nil"
    ELSE "syntax error"

\* the value of a panic of package calling
CallingPanic(msg, index, text, type, err) ==
    [msg |-> msg, index |-> index, text |-> text, type |-> type, err |-> err]

NoPanic == CallingPanic("none", 0, "", "", "nil")

\* no wrapper has been made
NoWrapper ==
    [pc |-> "none", by |-> "none", function |-> [kind |-> "nil", in |-> <<>>, out |-> <<>>],
     stringArgs |-> <<>>, result |-> "nil", panic |-> NoPanic, invoked |-> <<>>, ret |-> "nil"]

Init ==
    /\ wrapper = NoWrapper
    /\ goroutines = [g \in Goroutines |-> IdleGoroutine]
    /\ notified = {}
    /\ shutdown = <<>>
    /\ listener = NoListener
    /\ delivered = 0
    /\ events = <<>>
    /\ SentinelHandlers = DefaultSentinelHandlers
    /\ DebugShowInternalErrorsInResponse = FALSE
    /\ DefaultHandler = "DefaultHandlerImpl"
    /\ registrations = 0
    /\ lastWrite = <<>>
    /\ CatchPanics = TRUE
    /\ call = Idle

Config ==
    <<SentinelHandlers, DebugShowInternalErrorsInResponse, DefaultHandler, registrations,
      lastWrite, CatchPanics>>

\* a registration that keeps the handler a sentinel already has
RegisterSentinel_KeepFirst ==
    /\ call = Idle
    /\ NoCallInFlight
    /\ registrations < MaxRegistrations
    /\ \E s \in Sentinels, h \in RegistrableHandlers :
          /\ SentinelHandlers' = [k \in DOMAIN SentinelHandlers \cup {s} |->
                                     IF k \in DOMAIN SentinelHandlers
                                     THEN SentinelHandlers[k] ELSE h]
          /\ lastWrite' = <<[sentinel |-> s, handler |-> h]>>
    /\ registrations' = registrations + 1
    /\ UNCHANGED <<DebugShowInternalErrorsInResponse, DefaultHandler, CatchPanics, call, Background>>

\* httperr.SentinelHandlers[sentinel] = handler
RegisterSentinel ==
    /\ call = Idle
    /\ NoCallInFlight
    /\ registrations < MaxRegistrations
    /\ \E s \in Sentinels, h \in RegistrableHandlers :
          /\ SentinelHandlers' = [k \in DOMAIN SentinelHandlers \cup {s} |->
                                     IF k = s THEN h ELSE SentinelHandlers[k]]
          /\ lastWrite' = <<[sentinel |-> s, handler |-> h]>>
    /\ registrations' = registrations + 1
    /\ UNCHANGED <<DebugShowInternalErrorsInResponse, DefaultHandler, CatchPanics, call, Background>>

\* httperr.DebugShowInternalErrorsInResponse = b
SetDebug ==
    /\ call = Idle
    /\ NoCallInFlight
    /\ \E b \in BOOLEAN : DebugShowInternalErrorsInResponse' = b
    /\ UNCHANGED <<SentinelHandlers, DefaultHandler, registrations, lastWrite, CatchPanics,
                   call, Background>>

\* httperr.DefaultHandler = httperr.HandlerFunc(h)
SetDefaultHandler ==
    /\ call = Idle
    /\ NoCallInFlight
    /\ \E h \in {"DefaultHandlerImpl", "customErrorHandler"} : DefaultHandler' = h
    /\ UNCHANGED <<SentinelHandlers, DebugShowInternalErrorsInResponse, registrations,
                   lastWrite, CatchPanics, call, Background>>

CallHandle ==
    /\ call = Idle
    /\ \E err \in Errs \cup {NilErr} : \E o \in Handle(err) :
          call' = Call("Handle", err, [type |-> "nil"], <<>>, o)
    /\ UNCHANGED <<Config, Background>>

CallHandlePanic ==
    /\ call = Idle
    /\ \E val \in PanicValues : \E o \in HandlePanic(val) :
          call' = Call("HandlePanic", AsError(val), val, <<>>, o)
    /\ UNCHANGED <<Config, Background>>

CallDefaultHandlerImpl ==
    /\ call = Idle
    /\ \E err \in Errs \cup {NilErr} : \E o \in DefaultHandlerImpl(err) :
          call' = Call("DefaultHandlerImpl", err, [type |-> "nil"], <<>>, o)
    /\ UNCHANGED <<Config, Background>>

CallWriteHandler ==
    /\ call = Idle
    /\ \E err \in Errs \cup {NilErr} : \E o \in WriteHandler(err) :
          call' = Call("WriteHandler", err, [type |-> "nil"], <<>>, o)
    /\ UNCHANGED <<Config, Background>>

CallForEachHandler ==
    /\ call = Idle
    /\ \E err \in ErrsUpTo(1) \cup {NilErr}, handlers \in HandlerSeqs :
          \E o \in ForEachHandler(err, handlers) :
             call' = Call("ForEachHandler", err, [type |-> "nil"], handlers, o)
    /\ UNCHANGED <<Config, Background>>

CallShouldLog ==
    /\ call = Idle
    /\ \E err \in Errs \cup {NilErr} :
          call' = Call("ShouldLog", err, [type |-> "nil"], <<>>,
                       Outcome(<<>>, <<>>, <<>>, ShouldLog(err)))
    /\ UNCHANGED <<Config, Background>>

\* the next request arrives with a fresh response writer
NewRequest ==
    /\ call # Idle
    /\ call' = Idle
    /\ UNCHANGED <<Config, Background>>

Next ==
    \/ RegisterSentinel
    \/ SetDebug
    \/ SetDefaultHandler
    \/ CallHandle
    \/ CallHandlePanic
    \/ CallDefaultHandlerImpl
    \/ CallWriteHandler
    \/ CallForEachHandler
    \/ CallShouldLog
    \/ NewRequest

Spec == Init /\ [][Next]_vars

\* httperr.SentinelHandlers[sentinel] = nil
RegisterNilHandler ==
    /\ call = Idle
    /\ registrations < MaxRegistrations
    /\ \E s \in Sentinels :
          /\ SentinelHandlers' = [k \in DOMAIN SentinelHandlers \cup {s} |->
                                     IF k = s THEN NilHandler ELSE SentinelHandlers[k]]
          /\ lastWrite' = <<[sentinel |-> s, handler |-> NilHandler]>>
    /\ registrations' = registrations + 1
    /\ UNCHANGED <<DebugShowInternalErrorsInResponse, DefaultHandler, CatchPanics, call, Background>>

\* Handle called with an error whose status code is no HTTP status code
CallHandleMalformed ==
    /\ call = Idle
    /\ \E err \in MalformedErrs : \E o \in Handle(err) :
          call' = Call("Handle", err, [type |-> "nil"], <<>>, o)
    /\ UNCHANGED <<Config, Background>>

NextMalformed ==
    \/ RegisterSentinel
    \/ RegisterNilHandler
    \/ SetDebug
    \/ SetDefaultHandler
    \/ CallHandle
    \/ CallHandleMalformed
    \/ CallHandlePanic
    \/ CallDefaultHandlerImpl
    \/ CallWriteHandler
    \/ CallForEachHandler
    \/ CallShouldLog
    \/ NewRequest

\* the program given every value its types admit, values that net/http
\* rejects included
SpecMalformed == Init /\ [][NextMalformed]_vars

\* ------------------------------------------------------------------ helpers
CallOutcome == Outcome(call.writer, call.invoked, call.called, call.ret)

\* the call went through DefaultHandlerImpl: directly, or by Handle with the
\* default DefaultHandler
Dispatched ==
    \/ call.op = "DefaultHandlerImpl"
    \/ call.op = "Handle" /\ DefaultHandler = "DefaultHandlerImpl"

HandledByDefault == call.op = "Handle" /\ DefaultHandler = "DefaultHandlerImpl"

\* the positions of the layers of err that are http.Handlers
HandlerLayers(err) ==
    {i \in 1..Len(err) :
        err[i].kind \in {"statusCodeAndText", "redirect", "statusCodeAndJSON", "CustomError"}}

\* the registered sentinels whose own layer occurs in err
RegisteredIn(err) ==
    {s \in DOMAIN SentinelHandlers : \E i \in 1..Len(err) : err[i] = [kind |-> "sentinel", id |-> s]}

\* sub occurs in s as a contiguous run of tokens
Contains(s, sub) ==
    \E i \in 0..Len(s) : i + Len(sub) <= Len(s) /\ SubSeq(s, i + 1, i + Len(sub)) = sub

\* ------------------------------------------------------------------- claims

\* C1: an error built by httperr.New or httperr.Errorf with status code C and
\* passed unwrapped to Handle with the default DefaultHandler gets exactly one
\* response, written with status C, and Handle returns true.
C1_SelfDescribingStatusWritten ==
    (HandledByDefault /\ Len(call.err) = 1 /\ call.err[1].kind = "statusCodeAndText")
    => /\ call.ret = TRUE
       /\ Len(call.writer) = 1
       /\ call.writer[1].call = "http.Error"
       /\ call.writer[1].code = call.err[1].statusCode

C1_Witness ==
    /\ HandledByDefault
    /\ call.err = Errorf(StatusBadRequest, <<"User ", "%s", " not found">>, <<<<"alice">>>>)
    /\ call.ret = TRUE
    /\ call.writer = <<[call |-> "http.Error", text |-> <<"User ", "alice", " not found">>,
                        code |-> 400]>>

\* C2 as stated: an error without http.Handler in its chain that wraps a
\* registered sentinel M through one or more layers gets the response of the
\* handler registered for M, for every such M.
C2_HandlerOfEveryWrappedSentinel ==
    (Dispatched /\ call.err # NilErr /\ HandlerLayers(call.err) = {})
    => \A m \in RegisteredIn(call.err) :
          call.err # SentinelErr(m)
          => /\ call.ret = TRUE
             /\ call.writer = <<[call |-> "http.Error", text |-> SentinelHandlers[m].error,
                                 code |-> SentinelHandlers[m].code]>>

\* C2 amended: an error without http.Handler in its chain that wraps registered
\* sentinels gets the response of the handler registered for one of the
\* sentinels it wraps (so of M when M is the only one) and never the generic
\* 500; os.ErrNotExist wrapped three times yields 404 "Requested file not
\* found" under its default registration.
C2_HandlerOfSomeWrappedSentinel ==
    (Dispatched /\ call.err # NilErr /\ HandlerLayers(call.err) = {}
        /\ RegisteredIn(call.err) # {})
    => /\ call.ret = TRUE
       /\ \E m \in RegisteredIn(call.err) :
             /\ call.invoked = <<[renderer |-> "SentinelHandler", of |-> m]>>
             /\ call.writer = <<[call |-> "http.Error", text |-> SentinelHandlers[m].error,
                                 code |-> SentinelHandlers[m].code]>>
       /\ (call.err = Wrap("ctx", Wrap("ctx", Wrap("ctx", SentinelErr("ErrNotExist"))))
             /\ SentinelHandlers["ErrNotExist"] = FileNotFoundHandler)
          => call.writer = <<[call |-> "http.Error", text |-> <<"Requested file not found">>,
                              code |-> 404]>>

C2_Witness ==
    /\ call.op = "DefaultHandlerImpl"
    /\ call.err = Wrap("ctx", Wrap("ctx", Wrap("ctx", SentinelErr("ErrNotExist"))))
    /\ call.ret = TRUE
    /\ call.writer = <<[call |-> "http.Error", text |-> <<"Requested file not found">>,
                        code |-> 404]>>

\* C3: a non-nil error that has no http.Handler in its chain and wraps no key
\* of SentinelHandlers makes DefaultHandlerImpl return true and write one
\* response with status 500, whose body is "Internal Server Error" followed by
\* the error's text when DebugShowInternalErrorsInResponse is true (so the body
\* contains the text exactly then) and is "Internal Server Error" otherwise.
C3_OpaqueErrorIs500 ==
    (Dispatched /\ call.err # NilErr /\ HandlerLayers(call.err) = {}
        /\ RegisteredIn(call.err) = {})
    => /\ call.ret = TRUE
       /\ Len(call.writer) = 1
       /\ call.writer[1].call = "http.Error"
       /\ call.writer[1].code = 500
       /\ Contains(call.writer[1].text, ErrorText(call.err))
             <=> DebugShowInternalErrorsInResponse
       /\ DebugShowInternalErrorsInResponse
             => call.writer[1].text = <<"Internal Server Error", "\n">> \o ErrorText(call.err)
       /\ ~DebugShowInternalErrorsInResponse
             => call.writer[1].text = <<"Internal Server Error">>

C3_Witness ==
    /\ call.op = "DefaultHandlerImpl"
    /\ DebugShowInternalErrorsInResponse
    /\ call.err = Wrap("ctx", ErrorsNew(<<"disk full">>))
    /\ call.writer = <<[call |-> "http.Error",
                        text |-> <<"Internal Server Error", "\n", "ctx", ": ", "disk full">>,
                        code |-> 500]>>

\* C4: called with a nil error, Handle, DefaultHandlerImpl, WriteHandler,
\* ForEachHandler and HandlePanic(nil) return false, write nothing and invoke
\* no renderer and no handler.
C4_NilErrorWritesNothing ==
    (call.op \in {"Handle", "DefaultHandlerImpl", "WriteHandler", "ForEachHandler", "HandlePanic"}
        /\ call.err = NilErr)
    => /\ call.ret = FALSE
       /\ call.writer = <<>>
       /\ call.invoked = <<>>
       /\ call.called = <<>>

C4_Witness ==
    /\ call.op = "ForEachHandler"
    /\ call.err = NilErr
    /\ call.handlers = <<"customHandler1", "DefaultHandlerImpl">>
    /\ call.ret = FALSE
    /\ call.writer = <<>>

\* C5: for a non-nil error one call of DefaultHandlerImpl invokes exactly one
\* renderer (the error's ServeHTTP, one sentinel handler, or
\* WriteInternalServerError) exactly once and returns true.
C5_ExactlyOneRenderer ==
    (call.op = "DefaultHandlerImpl" /\ call.err # NilErr)
    => /\ call.ret = TRUE
       /\ Len(call.invoked) = 1
       /\ call.invoked[1].renderer \in {"ServeHTTP", "SentinelHandler", "WriteInternalServerError"}

C5_Witness ==
    /\ call.op = "DefaultHandlerImpl"
    /\ call.err = DontLog(SentinelErr("ErrNoRows"))
    /\ call.ret = TRUE
    /\ Len(call.invoked) = 1
    /\ call.invoked[1].renderer = "SentinelHandler"

\* C6: when an error has an http.Handler in its wrap chain and also wraps a
\* registered sentinel, WriteHandler invokes the error's own ServeHTTP and no
\* sentinel handler; a sentinel handler is invoked only when the chain has no
\* http.Handler, and WriteInternalServerError only when there is neither an
\* http.Handler nor a registered sentinel in the chain.
C6_OwnHandlerBeforeSentinel ==
    (call.op \in {"WriteHandler", "DefaultHandlerImpl"} /\ call.err # NilErr)
    => /\ (HandlerLayers(call.err) # {} /\ RegisteredIn(call.err) # {})
          => /\ Len(call.invoked) = 1
             /\ call.invoked[1].renderer = "ServeHTTP"
             /\ \A i \in 1..Len(call.writer) :
                   \A s \in DOMAIN SentinelHandlers :
                      call.writer[i].text # SentinelHandlers[s].error
       /\ \A i \in 1..Len(call.invoked) :
             /\ call.invoked[i].renderer = "SentinelHandler"
                   => HandlerLayers(call.err) = {}
             /\ call.invoked[i].renderer = "WriteInternalServerError"
                   => HandlerLayers(call.err) = {} /\ RegisteredIn(call.err) = {}

C6_Witness ==
    /\ call.op = "WriteHandler"
    /\ call.err = Wrap("ctx", CustomError(StatusTooManyRequests, SentinelErr("ErrNoRows")))
    /\ "ErrNoRows" \in DOMAIN SentinelHandlers
    /\ call.ret = TRUE
    /\ call.invoked = <<[renderer |-> "ServeHTTP", of |-> "CustomError"]>>
    /\ call.writer[1].code = 429

\* the error value at the end of the wrap chain of err
Innermost(err) == <<err[Len(err)]>>

\* err wraps an httperr.Response through one or more layers
WrapsResponse(err) ==
    /\ Len(err) >= 2
    /\ err[Len(err)].kind \in {"statusCodeAndText", "redirect", "statusCodeAndJSON"}

HasDontLogLayer(err) == \E i \in 1..Len(err) : err[i].kind = "errDontLog"

C9_DontLogTransparent ==
    (HandledByDefault /\ call.err # NilErr)
    => /\ CallOutcome \in Handle(DontLog(call.err))
       /\ Head(call.err).kind = "errDontLog"
             => /\ CallOutcome \in Handle(Tail(call.err))
                /\ call.ret = TRUE

C9_Witness ==
    /\ HandledByDefault
    /\ call.err = DontLog(New(StatusNotFound, <<>>))
    /\ call.ret = TRUE
    /\ call.writer = <<[call |-> "http.Error", text |-> <<"Not Found">>, code |-> 404]>>

\* C10: an error created by Redirect(code, target), TemporaryRedirect(target)
\* (code 307) or PermanentRedirect(target) (code 308) is handled by one
\* http.Redirect to that target with that code and true is returned; no
\* http.Error is written and WriteInternalServerError is not invoked.
C10_RedirectIssued ==
    (HandledByDefault /\ Len(call.err) = 1 /\ call.err[1].kind = "redirect")
    => /\ call.ret = TRUE
       /\ call.writer = <<[call |-> "http.Redirect", text |-> <<call.err[1].targetURL>>,
                           code |-> call.err[1].statusCode]>>
       /\ call.invoked = <<[renderer |-> "ServeHTTP", of |-> "redirect"]>>
       /\ call.err = TemporaryRedirect("/login")
             => call.writer[1].code = 307 /\ call.writer[1].text = <<"/login">>
       /\ call.err = PermanentRedirect("/new-location")
             => call.writer[1].code = 308 /\ call.writer[1].text = <<"/new-location">>

C10_Witness ==
    /\ HandledByDefault
    /\ call.err = TemporaryRedirect("/login")
    /\ call.ret = TRUE
    /\ call.writer = <<[call |-> "http.Redirect", text |-> <<"/login">>, code |-> 307]>>

\* ------------------------------------------------- concurrent calls of Handle
\* goroutine g enters Handle(err, writer, request) with its own error and
\* writer: the nil check and the read of DefaultHandler
GoHandle(g) ==
    /\ goroutines[g].pc = "idle"
    /\ \E err \in ConcurrentErrs :
          goroutines' = [goroutines EXCEPT ![g] =
              IF err = NilErr
              THEN [IdleGoroutine EXCEPT !.pc = "done"]
              ELSE [IdleGoroutine EXCEPT !.pc = "HandleError", !.err = err,
                                         !.handler = DefaultHandler,
                                         !.called = <<DefaultHandler>>]]
    /\ UNCHANGED <<Config, call, wrapper, notified, shutdown, listener, delivered, events>>

\* DefaultHandler.HandleError up to the errors.As step of WriteHandler
GoHandleError(g) ==
    /\ goroutines[g].pc = "HandleError"
    /\ LET gr == goroutines[g]
           handler == AsHTTPHandler(gr.err) IN
       goroutines' = [goroutines EXCEPT ![g] =
           IF gr.handler # "DefaultHandlerImpl"
           THEN [gr EXCEPT !.pc = "done"]
           ELSE IF handler # NilErr
           THEN [gr EXCEPT !.pc = "done", !.writer = ServeHTTP(handler),
                           !.invoked = <<Renderer("ServeHTTP", Head(handler).kind)>>,
                           !.ret = Returned(ServeHTTP(handler))]
           ELSE [gr EXCEPT !.pc = "range"]]
    /\ UNCHANGED <<Config, call, wrapper, notified, shutdown, listener, delivered, events>>

\* the range over SentinelHandlers in WriteHandler
GoRange(g) ==
    /\ goroutines[g].pc = "range"
    /\ LET gr == goroutines[g]
           matching == {s \in DOMAIN SentinelHandlers : ErrorsIs(gr.err, SentinelErr(s))} IN
       IF matching = {}
       THEN goroutines' = [goroutines EXCEPT ![g] = [gr EXCEPT !.pc = "WriteInternalServerError"]]
       ELSE \E s \in matching :
               goroutines' = [goroutines EXCEPT ![g] =
                   [gr EXCEPT !.pc = "done",
                              !.writer = SentinelServeHTTP(SentinelHandlers[s]),
                              !.invoked = <<Renderer("SentinelHandler", s)>>,
                              !.ret = Returned(SentinelServeHTTP(SentinelHandlers[s]))]]
    /\ UNCHANGED <<Config, call, wrapper, notified, shutdown, listener, delivered, events>>

\* WriteInternalServerError(err, writer) and the return of DefaultHandlerImpl
GoWriteInternalServerError(g) ==
    /\ goroutines[g].pc = "WriteInternalServerError"
    /\ LET gr == goroutines[g] IN
       goroutines' = [goroutines EXCEPT ![g] =
           [gr EXCEPT !.pc = "done", !.writer = WriteInternalServerError(gr.err),
                      !.invoked = <<Renderer("WriteInternalServerError", "")>>,
                      !.ret = TRUE]]
    /\ UNCHANGED <<Config, call, wrapper, notified, shutdown, listener, delivered, events>>

\* the caller of Handle has used the result
GoReturn(g) ==
    /\ goroutines[g].pc = "done"
    /\ goroutines' = [goroutines EXCEPT ![g] = IdleGoroutine]
    /\ UNCHANGED <<Config, call, wrapper, notified, shutdown, listener, delivered, events>>

NextConcurrent ==
    \/ RegisterSentinel
    \/ SetDebug
    \/ SetDefaultHandler
    \/ \E g \in Goroutines : GoHandle(g)
    \/ \E g \in Goroutines : GoHandleError(g)
    \/ \E g \in Goroutines : GoRange(g)
    \/ \E g \in Goroutines : GoWriteInternalServerError(g)
    \/ \E g \in Goroutines : GoReturn(g)

\* goroutines calling Handle concurrently, the package variables being
\* written only while no call is in flight
SpecConcurrent == Init /\ [][NextConcurrent]_vars

\* --------------------------------------------------------- graceful shutdown
\* GracefulShutdownServerOnSignal(server, signalLog, errorLog, timeout, signals...):
\* the default signals, the channel, signal.Notify and the go statement
GracefulShutdownServerOnSignal ==
    /\ listener.pc = "none"
    /\ \E signalLog \in BOOLEAN, errorLog \in BOOLEAN, timeout \in Timeouts,
          signals \in SignalArgs :
          /\ notified' = IF signals = {} THEN DefaultSignals ELSE signals
          /\ listener' = [pc |-> "started", signalLog |-> signalLog, errorLog |-> errorLog,
                          timeout |-> timeout, sig |-> "none", err |-> "nil"]
    /\ shutdown' = <<>>
    /\ UNCHANGED <<Config, call, wrapper, goroutines, delivered, events>>

\* delivery on an unbuffered channel: the signal is lost unless the goroutine
\* is blocked in the receive
Deliver_Unbuffered ==
    /\ delivered < MaxDeliveries
    /\ \E sig \in notified :
          shutdown' = IF listener.pc = "receive" /\ shutdown = <<>>
                      THEN <<sig>> ELSE shutdown
    /\ delivered' = delivered + 1
    /\ UNCHANGED <<Config, call, wrapper, goroutines, notified, listener, events>>

\* the process is sent one of the notified signals: package signal sends it on
\* the channel without blocking and drops it when the channel is full
Deliver ==
    /\ delivered < MaxDeliveries
    /\ \E sig \in notified :
          shutdown' = IF Len(shutdown) < ShutdownChanCap
                      THEN Append(shutdown, sig) ELSE shutdown
    /\ delivered' = delivered + 1
    /\ UNCHANGED <<Config, call, wrapper, goroutines, notified, listener, events>>

\* the goroutine is scheduled and reaches `sig := <-shutdown`
ListenerStart ==
    /\ listener.pc = "started"
    /\ listener' = [listener EXCEPT !.pc = "receive"]
    /\ UNCHANGED <<Config, call, wrapper, goroutines, notified, shutdown, delivered, events>>

\* a goroutine that does not wait for a signal: it goes on with the zero
\* signal when the channel is empty
Receive_NonBlocking ==
    /\ listener.pc = "receive"
    /\ listener' = [listener EXCEPT !.pc = "logSignal",
                                    !.sig = IF shutdown = <<>> THEN "none" ELSE Head(shutdown)]
    /\ shutdown' = IF shutdown = <<>> THEN shutdown ELSE Tail(shutdown)
    /\ UNCHANGED <<Config, call, wrapper, goroutines, notified, delivered, events>>

\* sig := <-shutdown
Receive ==
    /\ listener.pc = "receive"
    /\ shutdown # <<>>
    /\ listener' = [listener EXCEPT !.pc = "logSignal", !.sig = Head(shutdown)]
    /\ shutdown' = Tail(shutdown)
    /\ UNCHANGED <<Config, call, wrapper, goroutines, notified, delivered, events>>

\* if signalLog != nil { signalLog.Printf("Received signal: %s", sig) }
LogSignal ==
    /\ listener.pc = "logSignal"
    /\ events' = IF listener.signalLog
                 THEN Append(events, Event("signalLog.Printf", listener.sig, ContextBackground, "nil"))
                 ELSE events
    /\ listener' = [listener EXCEPT !.pc = "shutdown"]
    /\ UNCHANGED <<Config, call, wrapper, goroutines, notified, shutdown, delivered>>

\* the context (with a deadline when timeout > 0) and err := server.Shutdown(ctx)
ServerShutdown ==
    /\ listener.pc = "shutdown"
    /\ \E err \in ShutdownResults :
          /\ err = "context deadline exceeded" => listener.timeout > 0
          /\ listener' = [listener EXCEPT !.pc = "logError", !.err = err]
          /\ events' = Append(events,
                               Event("server.Shutdown", listener.sig,
                                     ShutdownContext(listener.timeout), err))
    /\ UNCHANGED <<Config, call, wrapper, goroutines, notified, shutdown, delivered>>

\* a goroutine that goes back to the receive after the shutdown, as a
\* `for sig := range shutdown` loop would
LogError_ReceiveAgain ==
    /\ listener.pc = "logError"
    /\ events' = events
          \o (IF listener.err # "nil" /\ listener.errorLog
              THEN <<Event("errorLog.Printf", listener.sig, ContextBackground, listener.err)>> ELSE <<>>)
          \o (IF listener.timeout > 0
              THEN <<Event("cancel", listener.sig, ShutdownContext(listener.timeout), "nil")>> ELSE <<>>)
    /\ listener' = [listener EXCEPT !.pc = "receive"]
    /\ UNCHANGED <<Config, call, wrapper, goroutines, notified, shutdown, delivered>>

\* if err != nil && errorLog != nil { errorLog.Printf(...) }, then the
\* deferred cancel() when a context with a deadline was made
LogError ==
    /\ listener.pc = "logError"
    /\ events' = events
          \o (IF listener.err # "nil" /\ listener.errorLog
              THEN <<Event("errorLog.Printf", listener.sig, ContextBackground, listener.err)>> ELSE <<>>)
          \o (IF listener.timeout > 0
              THEN <<Event("cancel", listener.sig, ShutdownContext(listener.timeout), "nil")>> ELSE <<>>)
    /\ listener' = [listener EXCEPT !.pc = "done"]
    /\ UNCHANGED <<Config, call, wrapper, goroutines, notified, shutdown, delivered>>

NextShutdown ==
    \/ GracefulShutdownServerOnSignal
    \/ Deliver
    \/ ListenerStart
    \/ Receive
    \/ LogSignal
    \/ ServerShutdown
    \/ LogError

\* the signal listener, its goroutine being scheduled whenever it can take a
\* step
SpecShutdown ==
    /\ Init
    /\ [][NextShutdown]_vars
    /\ WF_vars(ListenerStart)
    /\ WF_vars(Receive)
    /\ WF_vars(LogSignal)
    /\ WF_vars(ServerShutdown)
    /\ WF_vars(LogError)

\* ---------------------------------------------------------- package respond
\* the handler types of package respond
RespondKinds == {"JSON", "XML", "HTML", "Plaintext", "Error"}

\* what a handler function does when it is called: it returns a response and
\* an error, or it panics with a value
Returns(response, err) ==
    [does |-> "return", response |-> response, err |-> err, val |-> [type |-> "nil"]]

PanicsWith(val) ==
    [does |-> "panic", response |-> [text |-> "", marshals |-> TRUE], err |-> NilErr,
     val |-> val]

\* responses a handler function returns; marshals says whether the encoder of
\* the handler type accepts it
Responses == {[text |-> "{status: ok}", marshals |-> TRUE], [text |-> "chan", marshals |-> FALSE]}

\* errors a handler function returns
ReturnedErrs ==
    {NilErr, New(StatusNotFound, <<>>), Wrap("ctx", SentinelErr("ErrNoRows")),
     ErrorsNew(<<"disk full">>), New(0, <<>>)}

\* values a handler function panics with
RaisedValues ==
    {[type |-> "error", err |-> e] :
        e \in {New(StatusNotFound, <<>>), Wrap("ctx", SentinelErr("ErrNoRows")),
                ErrorsNew(<<"disk full">>), New(0, <<>>)}}
    \cup {[type |-> "string", text |-> "index out of range"],
          [type |-> "Stringer", text |-> "stringer text"],
          [type |-> "other", text |-> "{Code:42}"]}

HandlerFuncs ==
    {Returns(r, e) : r \in Responses, e \in ReturnedErrs}
    \cup {PanicsWith(v) : v \in RaisedValues}

\* writer.Header().Set("Content-Type", ...); writer.Write(b): the status is the
\* implicit 200
WriteBody(contentType, body) ==
    [call |-> "Write", text |-> <<contentType, body>>, code |-> 200]

\* WriteJSON / WriteXML / WriteHTML / WritePlaintext of package respond;
\* respond.Error writes no response of its own
WriteResponse(kind, response) ==
    CASE kind \in {"JSON", "XML"} ->
            IF response.marshals
            THEN <<WriteBody(kind, response.text)>>
            ELSE WriteInternalServerError(ErrorsNew(<<MarshalErrorText>>))
      [] kind \in {"HTML", "Plaintext"} -> <<WriteBody(kind, response.text)>>
      [] OTHER -> <<>>

\* the value recover() returns for a panic raised by net/http or the runtime
Recovered(panic) ==
    IF panic = NilDereference
    THEN [type |-> "error", err |-> ErrorsNew(panic.text)]
    ELSE [type |-> "string", text |-> "invalid WriteHeader code 0"]

\* a panic that leaves ServeHTTP with the value val
Propagated(val) == [call |-> "panic", text |-> ErrorText(AsError(val)), code |-> 0]

\* all but the last element of a sequence
Front(seq) == SubSeq(seq, 1, Len(seq) - 1)

\* the body of ServeHTTP up to its return or panic: the calls issued on the
\* writer and the value of the panic that ended it, if one did
ServeHTTPBody(kind, fn) ==
    IF fn.does = "panic" THEN {[writer |-> <<>>, panic |-> <<fn.val>>]}
    ELSE {IF Panics(o.writer)
          THEN [writer |-> Front(o.writer), panic |-> <<Recovered(o.writer[Len(o.writer)])>>]
          ELSE IF o.ret /\ kind # "Error"
          THEN [writer |-> o.writer, panic |-> <<>>]
          ELSE [writer |-> o.writer \o WriteResponse(kind, fn.response), panic |-> <<>>]
          : o \in Handle(fn.err)}

\* ServeHTTP with `defer httperr.Handle(httperr.Recover(), writer, request)`:
\* the arguments are evaluated when the defer statement runs, so nothing is
\* recovered
RespondServeHTTP_DeferHandleRecover(kind, fn) ==
    {IF b.panic = <<>> THEN Outcome(b.writer, <<>>, <<>>, FALSE)
     ELSE Outcome(b.writer \o <<Propagated(b.panic[1])>>, <<>>, <<>>, FALSE)
     : b \in ServeHTTPBody(kind, fn)}

\* JSON.ServeHTTP, XML.ServeHTTP, HTML.ServeHTTP, Plaintext.ServeHTTP and
\* Error.ServeHTTP: the body, then the deferred
\* httperr.HandlePanic(recover(), writer, request) when CatchPanics is set
RespondServeHTTP(kind, fn) ==
    IF ~CatchPanics
    THEN {IF b.panic = <<>> THEN Outcome(b.writer, <<>>, <<>>, FALSE)
          ELSE Outcome(b.writer \o <<Propagated(b.panic[1])>>, <<>>, <<>>, FALSE)
          : b \in ServeHTTPBody(kind, fn)}
    ELSE UNION {{Outcome(b.writer \o o.writer, o.invoked, o.called, FALSE)
                 : o \in HandlePanic(IF b.panic = <<>> THEN [type |-> "nil"] ELSE b.panic[1])}
                : b \in ServeHTTPBody(kind, fn)}

\* respond.CatchPanics = b
SetCatchPanics ==
    /\ call = Idle
    /\ \E b \in BOOLEAN : CatchPanics' = b
    /\ UNCHANGED <<SentinelHandlers, DebugShowInternalErrorsInResponse, DefaultHandler,
                   registrations, lastWrite, call, Background>>

\* the server calls ServeHTTP of a respond handler for a request
CallRespond ==
    /\ call = Idle
    /\ \E kind \in RespondKinds, fn \in HandlerFuncs : \E o \in RespondServeHTTP(kind, fn) :
          call' = Call(kind, fn.err, fn, <<>>, o)
    /\ UNCHANGED <<Config, Background>>

NextRespond ==
    \/ RegisterSentinel
    \/ RegisterNilHandler
    \/ SetDebug
    \/ SetDefaultHandler
    \/ SetCatchPanics
    \/ CallRespond
    \/ NewRequest

\* the handlers of package respond serving requests
SpecRespond == Init /\ [][NextRespond]_vars

\* C11: HandlePanic hands to Handle the error AsError makes of the recovered
\* value: an error value itself, unchanged, so that it keeps its own rendering;
\* for a string an error with that message; for a fmt.Stringer an error with
\* its String() text; for any other non-nil value an error with its %+v text;
\* and what HandlePanic does is what Handle can do for that error.
C11_PanicValueNormalized ==
    (call.op = "HandlePanic" /\ call.val.type # "nil")
    => /\ call.val.type = "error"
             => /\ call.err = call.val.err
                /\ CallOutcome \in Handle(call.val.err)
                /\ (DefaultHandler = "DefaultHandlerImpl" /\ HandlerLayers(call.val.err) # {})
                      => call.invoked[1].renderer = "ServeHTTP"
       /\ call.val.type \in {"string", "Stringer", "other"}
             => /\ call.err = ErrorsNew(<<call.val.text>>)
                /\ ErrorText(call.err) = <<call.val.text>>
                /\ CallOutcome \in Handle(ErrorsNew(<<call.val.text>>))
                /\ DefaultHandler = "DefaultHandlerImpl"
                      => call.ret = TRUE /\ call.writer[1].code = 500

C11_Witness ==
    /\ call.op = "HandlePanic"
    /\ DefaultHandler = "DefaultHandlerImpl"
    /\ call.val = [type |-> "error", err |-> Wrap("ctx", New(StatusNotFound, <<>>))]
    /\ call.ret = TRUE
    /\ call.writer = <<[call |-> "http.Error", text |-> <<"Not Found">>, code |-> 404]>>

\* the positions of the handlers of the call that return true for its error
ReturningTrue ==
    {i \in 1..Len(call.handlers) :
        \E o \in HandleError(call.handlers[i], call.err) : o.ret}

\* C12: for a non-nil error ForEachHandler invokes every passed handler once,
\* in argument order, with that error, goes on after a handler has returned
\* true (every handler that handles the error leaves its response on the
\* writer), and returns true exactly when some handler returned true.
C12_EveryHandlerInvokedInOrder ==
    (call.op = "ForEachHandler" /\ call.err # NilErr)
    => /\ call.called = call.handlers
       /\ call.ret = TRUE <=> ReturningTrue # {}
       /\ Len(call.writer) = Cardinality(ReturningTrue)
       /\ \A k \in 1..Len(call.writer) :
             \E i \in ReturningTrue :
                \E o \in HandleError(call.handlers[i], call.err) : o.writer = <<call.writer[k]>>

C12_Witness ==
    /\ call.op = "ForEachHandler"
    /\ call.err = SentinelErr("ErrRateLimited")
    /\ "ErrRateLimited" \notin DOMAIN SentinelHandlers
    /\ ~DebugShowInternalErrorsInResponse
    /\ call.handlers = <<"customHandler1", "DefaultHandlerImpl">>
    /\ call.called = <<"customHandler1", "DefaultHandlerImpl">>
    /\ call.ret = TRUE
    /\ call.writer = <<[call |-> "http.Error", text |-> <<"Rate limited">>, code |-> 429],
                       [call |-> "http.Error", text |-> <<"Internal Server Error">>, code |-> 500]>>

\* C13: an httperr.JSON(statusCode, body) error that is the http.Handler of
\* the dispatched error is rendered, when body marshals, as one JSON response
\* with statusCode and the marshalled body; when body does not marshal, as
\* exactly one 500 response of WriteInternalServerError for the wrapped
\* marshalling error (its text shown in debug mode), with no JSON response and
\* nothing under statusCode written, by one renderer invocation.
C13_JSONRenderedOrFallback ==
    (Dispatched /\ AsHTTPHandler(call.err) # NilErr
        /\ Head(AsHTTPHandler(call.err)).kind = "statusCodeAndJSON")
    => LET e == Head(AsHTTPHandler(call.err)) IN
       /\ call.ret = TRUE
       /\ call.invoked = <<[renderer |-> "ServeHTTP", of |-> "statusCodeAndJSON"]>>
       /\ Len(call.writer) = 1
       /\ e.body.marshals
             => call.writer[1] = [call |-> "WriteJSON", text |-> <<e.body.text>>,
                                  code |-> e.statusCode]
       /\ ~e.body.marshals
             => /\ call.writer[1].call = "http.Error"
                /\ call.writer[1].code = 500
                /\ call.writer[1].code # e.statusCode
                /\ call.writer[1].text =
                      IF DebugShowInternalErrorsInResponse
                      THEN <<"Internal Server Error", "\n",
                             "can't marshall error as JSON because", ": ",
                             "json: unsupported type">>
                      ELSE <<"Internal Server Error">>

C13_Witness ==
    /\ call.op = "DefaultHandlerImpl"
    /\ DebugShowInternalErrorsInResponse
    /\ call.err = Wrap("ctx", JSON(StatusBadRequest, [text |-> "chan", marshals |-> FALSE]))
    /\ call.ret = TRUE
    /\ call.writer = <<[call |-> "http.Error",
                        text |-> <<"Internal Server Error", "\n",
                                   "can't marshall error as JSON because", ": ",
                                   "json: unsupported type">>,
                        code |-> 500]>>

\* C14: for every non-nil error, whatever its wrap chain and whatever
\* SentinelHandlers holds, Handle with the default handler and
\* DefaultHandlerImpl do not panic: they return true after one of their three
\* renderers has been invoked.
C14_DispatchNeverPanics ==
    (Dispatched /\ call.err # NilErr)
    => /\ ~Panics(call.writer)
       /\ call.ret = TRUE
       /\ Len(call.invoked) = 1

\* C15 as stated: two calls of DefaultHandlerImpl with the same error and the
\* same SentinelHandlers select the same renderer and write the same response:
\* the call has one possible outcome.
C15_DispatchDeterministic ==
    (call.op = "DefaultHandlerImpl" /\ call.err # NilErr)
    => DefaultHandlerImpl(call.err) = {CallOutcome}

\* C15 amended: DefaultHandlerImpl has one possible outcome for an error that
\* has an http.Handler in its wrap chain or wraps at most one registered
\* sentinel; for an error that wraps several registered sentinels every
\* possible outcome is true returned after the handler of one of them has
\* written its response.
C15_DeterministicUpToSentinelChoice ==
    (call.op = "DefaultHandlerImpl" /\ call.err # NilErr)
    => /\ (HandlerLayers(call.err) # {} \/ Cardinality(RegisteredIn(call.err)) <= 1)
             => DefaultHandlerImpl(call.err) = {CallOutcome}
       /\ \A o \in DefaultHandlerImpl(call.err) :
             /\ o.ret = TRUE
             /\ o # CallOutcome
                   => /\ Len(o.invoked) = 1
                      /\ o.invoked[1].renderer = "SentinelHandler"
                      /\ o.invoked[1].of \in RegisteredIn(call.err)
                      /\ o.writer = SentinelServeHTTP(SentinelHandlers[o.invoked[1].of])

C15_Witness ==
    /\ call.op = "DefaultHandlerImpl"
    /\ call.err = Wrap("ctx", SentinelErr("ErrRecordNotFound"))
    /\ RegisteredIn(call.err) = {"ErrNoRows"}
    /\ DefaultHandlerImpl(call.err) = {CallOutcome}
    /\ call.writer = <<[call |-> "http.Error", text |-> <<"Requested database row not found">>,
                        code |-> 404]>>

\* the sentinels whose own layer occurs in err
SentinelsIn(err) ==
    {s \in Sentinels : \E i \in 1..Len(err) : err[i] = [kind |-> "sentinel", id |-> s]}

\* C17: SentinelHandlers holds one handler per sentinel, and for the sentinel
\* written last it is the handler of that last write, also when the sentinel
\* had a handler before; an error that wraps only that sentinel is then
\* answered by the handler written last and by no handler the sentinel had
\* earlier.
C17_LastRegistrationWins ==
    lastWrite # <<>>
    => LET s == lastWrite[1].sentinel
           h == lastWrite[1].handler IN
       /\ s \in DOMAIN SentinelHandlers
       /\ SentinelHandlers[s] = h
       /\ DOMAIN SentinelHandlers \subseteq Sentinels
       /\ Cardinality(DOMAIN SentinelHandlers) <= 2 + registrations
       /\ (Dispatched /\ HandlerLayers(call.err) = {} /\ SentinelsIn(call.err) = {s})
             => /\ call.ret = TRUE
                /\ call.invoked = <<[renderer |-> "SentinelHandler", of |-> s]>>
                /\ call.writer = <<[call |-> "http.Error", text |-> h.error, code |-> h.code]>>

C17_Witness ==
    /\ lastWrite = <<[sentinel |-> "ErrNoRows", handler |-> RateLimitedHandler]>>
    /\ HandledByDefault
    /\ call.err = Wrap("ctx", SentinelErr("ErrNoRows"))
    /\ call.ret = TRUE
    /\ call.writer = <<[call |-> "http.Error", text |-> <<"Rate limited">>, code |-> 429]>>
    /\ call.writer # <<[call |-> "http.Error", text |-> <<"Requested database row not found">>,
                        code |-> 404]>>

\* C18: when the handler installed as DefaultHandler returns false for a
\* non-nil error, Handle still has DefaultHandlerImpl process the error, so
\* that a response is written for it.
C18_FalseFallsBackToDefault ==
    (call.op = "Handle" /\ DefaultHandler = "customErrorHandler" /\ call.err # NilErr)
    => /\ call.writer # <<>>
       /\ \E o \in DefaultHandlerImpl(call.err) : o.writer = call.writer

\* the call was ServeHTTP of a respond handler whose handler function panicked
\* while CatchPanics was set
PanicCaught ==
    /\ call.op \in RespondKinds
    /\ call.val.does = "panic"
    /\ CatchPanics

GoOutcome(g) ==
    Outcome(goroutines[g].writer, goroutines[g].invoked, goroutines[g].called,
            goroutines[g].ret)

\* C16: with the package variables written only while no call is in flight,
\* every one of the concurrent calls of Handle, each on its own error and
\* writer, ends with a result that Handle has for that error when it runs
\* alone, however the steps of the calls interleave.
C16_ConcurrentCallsAsAlone ==
    \A g \in Goroutines :
       goroutines[g].pc = "done" => GoOutcome(g) \in Handle(goroutines[g].err)

C16_Witness ==
    /\ "ErrRateLimited" \in DOMAIN SentinelHandlers
    /\ DefaultHandler = "DefaultHandlerImpl"
    /\ goroutines[1].pc = "done"
    /\ goroutines[1].err = Wrap("ctx", SentinelErr("ErrRateLimited"))
    /\ goroutines[1].writer = SentinelServeHTTP(SentinelHandlers["ErrRateLimited"])
    /\ goroutines[2].pc = "done"
    /\ goroutines[2].err = ErrorsNew(<<"disk full">>)
    /\ goroutines[2].writer = <<[call |-> "http.Error", text |-> <<"Internal Server Error">>,
                                 code |-> 500]>>

\* server.Shutdown has been invoked by the listener goroutine
ShutdownInvoked == \E i \in 1..Len(events) : events[i].event = "server.Shutdown"

\* C20: once GracefulShutdownServerOnSignal has been called and the process
\* has been sent one of the signals it registered (SIGHUP, SIGINT or SIGTERM
\* when none were passed), server.Shutdown is eventually invoked, the
\* listener goroutine being scheduled fairly.
C20_SignalLeadsToShutdown == (delivered > 0) ~> ShutdownInvoked

C20_Witness ==
    /\ notified = DefaultSignals
    /\ delivered > 0
    /\ listener.sig = "SIGTERM"
    /\ ShutdownInvoked

\* ------------------------------- package respond, the revisions that install
\* ------------------------------- `defer httperr.Handle(httperr.Recover(), ...)`
\* the handler types of those revisions
DeferHandleKinds == {"JSON", "Error"}

\* httperr.Recover(): recover() gives the value of the panic only while the
\* goroutine is panicking (panicking holds the value) and only to the deferred
\* function itself; the switch then makes an error of it
Recover(panicking, deferred) ==
    IF panicking = <<>> \/ ~deferred THEN NilErr
    ELSE IF panicking[1].type = "error" THEN panicking[1].err
    ELSE ErrorsNew(<<panicking[1].text>>)

\* JSON.ServeHTTP and Error.ServeHTTP of those revisions: the defer statement
\* evaluates httperr.Recover() when it is executed, before the handler function
\* runs; the deferred Handle gets that error when ServeHTTP returns or unwinds
ServeHTTPDeferHandle(kind, fn) ==
    LET deferredArgs == IF CatchPanics THEN <<Recover(<<>>, FALSE)>> ELSE <<>>
    IN  UNION {{Outcome(b.writer \o d.writer
                          \o (IF b.panic = <<>> THEN <<>> ELSE <<Propagated(b.panic[1])>>),
                        d.invoked, d.called, FALSE)
                : d \in IF deferredArgs = <<>> THEN {Nothing} ELSE Handle(deferredArgs[1])}
               : b \in ServeHTTPBody(kind, fn)}

\* the server calls ServeHTTP of a handler of those revisions
CallRespondDeferHandle ==
    /\ call = Idle
    /\ \E kind \in DeferHandleKinds, fn \in HandlerFuncs :
          \E o \in ServeHTTPDeferHandle(kind, fn) :
             call' = Call(kind, fn.err, fn, <<>>, o)
    /\ UNCHANGED <<Config, Background>>

NextRespondDeferHandle ==
    \/ RegisterSentinel
    \/ SetDebug
    \/ SetDefaultHandler
    \/ SetCatchPanics
    \/ CallRespondDeferHandle
    \/ NewRequest

SpecRespondDeferHandle == Init /\ [][NextRespondDeferHandle]_vars

\* ------------------------------------------------------------ package calling
\* the panic of WithStringArgs(function) at wrap time, NoPanic when it returns
\* a wrapper
WithStringArgs(function) ==
    IF function.kind = "nil"
    THEN CallingPanic("reflect: call of reflect.Value.Type on zero Value", 0, "", "", "nil")
    ELSE IF function.kind # "func" THEN CallingPanic("not a function", 0, "", "", "nil")
    ELSE IF Len(function.out) # 0 THEN CallingPanic("must not return results", 0, "", "", "nil")
    ELSE NoPanic

\* the panic of WithStringArgsError(function) at wrap time
WithStringArgsError(function) ==
    IF function.kind = "nil"
    THEN CallingPanic("reflect: call of reflect.Value.Type on zero Value", 0, "", "", "nil")
    ELSE IF function.kind # "func" THEN CallingPanic("not a function", 0, "", "", "nil")
    ELSE IF Len(function.out) # 1 \/ function.out[1] # "error"
    THEN CallingPanic("must return an error", 0, "", "", "nil")
    ELSE NoPanic

\* a loop that goes on after a failed conversion
ScanArgs_IgnoreErrors(argTypes, stringArgs, i) == NoPanic

\* the loop over args from index i (Go's i - 1): the panic of the first string
\* that fmt.Sscan fails on, NoPanic when it fails on none
RECURSIVE ScanArgs(_, _, _)
ScanArgs(argTypes, stringArgs, i) ==
    IF i > Len(argTypes) THEN NoPanic
    ELSE LET err == Sscan(stringArgs[i], Interface(Zero(argTypes[i])))
         IN  IF err # "nil"
             THEN CallingPanic("Could not convert string argument", i - 1, stringArgs[i],
                               argTypes[i], err)
             ELSE ScanArgs(argTypes, stringArgs, i + 1)

\* the wrapper returned by WithStringArgs, called with stringArgs: its panic
\* and the argument lists the target function was called with
WithStringArgsFunc(function, stringArgs) ==
    LET argTypes == function.in
        numArgs == Len(argTypes)
    IN  IF Len(stringArgs) # numArgs
        THEN [panic |-> CallingPanic("number of string args is no equal number of target function args",
                                     0, "", "", "nil"),
              invoked |-> <<>>, ret |-> "nil"]
        ELSE LET panic == ScanArgs(argTypes, stringArgs, 1)
                 args == [i \in 1..numArgs |-> Zero(argTypes[i])]
             IN  IF panic # NoPanic
                 THEN [panic |-> panic, invoked |-> <<>>, ret |-> "nil"]
                 ELSE [panic |-> NoPanic, invoked |-> <<args>>, ret |-> "nil"]

\* the wrapper returned by WithStringArgsError, the target returning result
WithStringArgsErrorFunc(function, stringArgs, result) ==
    LET o == WithStringArgsFunc(function, stringArgs)
    IN  IF o.panic # NoPanic THEN o ELSE [o EXCEPT !.ret = result]

CallWithStringArgs ==
    /\ \E function \in Functions :
          LET panic == WithStringArgs(function)
          IN  wrapper' = [NoWrapper EXCEPT !.pc = IF panic = NoPanic THEN "wrapped" ELSE "panicked",
                                           !.by = "WithStringArgs",
                                           !.function = function,
                                           !.panic = panic]
    /\ UNCHANGED <<Config, call, goroutines, notified, shutdown, listener, delivered, events>>

CallWithStringArgsError ==
    /\ \E function \in Functions :
          LET panic == WithStringArgsError(function)
          IN  wrapper' = [NoWrapper EXCEPT !.pc = IF panic = NoPanic THEN "wrapped" ELSE "panicked",
                                           !.by = "WithStringArgsError",
                                           !.function = function,
                                           !.panic = panic]
    /\ UNCHANGED <<Config, call, goroutines, notified, shutdown, listener, delivered, events>>

\* the wrapper is called; result is what the target function returns if it
\* is reached
CallWrapper ==
    /\ wrapper.pc \in {"wrapped", "returned"}
    /\ \E stringArgs \in StringArgLists, result \in TargetResults :
          /\ wrapper.by = "WithStringArgs" => result = "nil"
          /\ LET o == IF wrapper.by = "WithStringArgs"
                      THEN WithStringArgsFunc(wrapper.function, stringArgs)
                      ELSE WithStringArgsErrorFunc(wrapper.function, stringArgs, result)
             IN  wrapper' = [wrapper EXCEPT !.pc = IF o.panic = NoPanic THEN "returned"
                                                                        ELSE "callPanicked",
                                            !.stringArgs = stringArgs,
                                            !.result = result,
                                            !.panic = o.panic,
                                            !.invoked = o.invoked,
                                            !.ret = o.ret]
    /\ UNCHANGED <<Config, call, goroutines, notified, shutdown, listener, delivered, events>>

NextCalling ==
    \/ CallWithStringArgs
    \/ CallWithStringArgsError
    \/ CallWrapper

\* functions are wrapped and the wrappers called
SpecCalling == Init /\ [][NextCalling]_vars

\* the positions in events of the calls of the given kind
EventsOf(kind) == {i \in 1..Len(events) : events[i].event = kind}

\* C21: the listener goroutine invokes server.Shutdown at most once, however
\* many notified signals are delivered and whenever they arrive; a signal that
\* arrives after the first has been received stays in the channel.
C21_ShutdownAtMostOnce ==
    /\ Cardinality(EventsOf("server.Shutdown")) <= 1
    /\ listener.pc = "done" => Cardinality(EventsOf("server.Shutdown")) = 1
    /\ listener.pc \in {"none", "started", "receive"} => EventsOf("server.Shutdown") = {}

C21_Witness ==
    /\ delivered = 2
    /\ listener.pc = "done"
    /\ shutdown # <<>>
    /\ Cardinality(EventsOf("server.Shutdown")) = 1

\* C22: with timeout zero server.Shutdown is given a context without a
\* deadline; with a timeout greater than zero it is given a context whose
\* deadline is that timeout, and that context's cancel function is called
\* after Shutdown has returned, never before, and by the time the goroutine
\* ends.
C22_ContextFollowsTimeout ==
    \A i \in EventsOf("server.Shutdown") :
        /\ listener.timeout = 0 =>
              /\ events[i].deadline = ContextBackground
              /\ EventsOf("cancel") = {}
        /\ listener.timeout > 0 =>
              /\ events[i].deadline = {listener.timeout}
              /\ \A j \in EventsOf("cancel") :
                    j > i /\ events[j].deadline = events[i].deadline
              /\ listener.pc = "done" => Cardinality(EventsOf("cancel")) = 1

C22_Witness ==
    /\ listener.pc = "done"
    /\ listener.timeout > 0
    /\ EventsOf("cancel") # {}
    /\ \E i \in EventsOf("server.Shutdown") : events[i].deadline = {listener.timeout}

\* the calls the goroutine has made, by kind, in the order it made them
EventKinds == [i \in 1..Len(events) |-> events[i].event]

\* the calls a goroutine of the listener makes once all its steps are done
ExpectedKinds ==
    (IF listener.signalLog THEN <<"signalLog.Printf">> ELSE <<>>)
    \o <<"server.Shutdown">>
    \o (IF listener.err # "nil" /\ listener.errorLog THEN <<"errorLog.Printf">> ELSE <<>>)
    \o (IF listener.timeout > 0 THEN <<"cancel">> ELSE <<>>)

\* C28: server.Shutdown is invoked only after a notified signal has been
\* received, and the goroutine's calls come in the order: signal log (only
\* with a signalLog), Shutdown, error log (only when Shutdown returned an
\* error and there is an errorLog), each for the signal that was received.
C28_ShutdownAfterSignalInOrder ==
    /\ \A i \in 1..Len(events) :
          /\ delivered > 0
          /\ listener.sig \in notified
          /\ events[i].sig = listener.sig
    /\ \E n \in 0..Len(ExpectedKinds) :
          /\ EventKinds = SubSeq(ExpectedKinds, 1, n)
          /\ listener.pc = "done" => n = Len(ExpectedKinds)
    /\ \A i \in EventsOf("errorLog.Printf") :
          /\ events[i].err = listener.err
          /\ \E j \in EventsOf("server.Shutdown") : j < i /\ events[j].err = events[i].err

C28_Witness ==
    /\ listener.pc = "done"
    /\ listener.signalLog /\ listener.errorLog
    /\ listener.err # "nil"
    /\ Len(events) >= 3
    /\ EventKinds[1] = "signalLog.Printf"
    /\ EventKinds[2] = "server.Shutdown"
    /\ EventKinds[3] = "errorLog.Printf"

\* the wrapper has been called with as many strings as the target function
\* has parameters
CalledWithNumArgs ==
    /\ wrapper.pc \in {"returned", "callPanicked"}
    /\ Len(wrapper.stringArgs) = Len(wrapper.function.in)

\* each string of the call is a textual form of its parameter's type
AllTextsValid ==
    \A i \in 1..Len(wrapper.stringArgs) :
        ValidText(wrapper.function.in[i], wrapper.stringArgs[i])

\* the value a text stands for: "30" is the int 30, "Alice" the string
\* "Alice", "true" the bool true
Converted(type, text) ==
    CASE type = "string"  -> GoValue(type, 0, text, FALSE)
      [] type = "int"     -> GoValue(type, 30, "", FALSE)
      [] type = "float64" -> GoValue(type, IF text = "30" THEN 300 ELSE 5, "", FALSE)
      [] type = "bool"    -> GoValue(type, 0, "", TRUE)

\* C23: a wrapper of a function with n parameters of basic types, called with
\* n strings that are textual forms of those types, does not panic and calls
\* the function exactly once with the converted values; the wrapper made by
\* WithStringArgsError then returns the function's error.
C23_ValidArgsInvokeTargetOnce ==
    CalledWithNumArgs /\ AllTextsValid =>
        /\ wrapper.pc = "returned"
        /\ wrapper.invoked =
              <<[i \in 1..Len(wrapper.stringArgs) |->
                    Converted(wrapper.function.in[i], wrapper.stringArgs[i])]>>
        /\ wrapper.ret = wrapper.result

\* the function may be wrapped by the constructor that was called
Wrappable ==
    /\ wrapper.function.kind = "func"
    /\ wrapper.by = "WithStringArgs" => wrapper.function.out = <<>>
    /\ wrapper.by = "WithStringArgsError" => wrapper.function.out = <<"error">>

\* C29: the constructors panic exactly when the function is not one they
\* wrap; a wrapper panics when the number of strings differs from the number
\* of parameters or when a string is no textual form of its parameter's type;
\* and the target function is not called on any path that panics (it is
\* called once on a path that returns).
C29_PanicPathsNeverInvoke ==
    /\ wrapper.pc # "none" => (wrapper.pc = "panicked" <=> ~Wrappable)
    /\ wrapper.pc \in {"panicked", "callPanicked"} =>
          wrapper.panic # NoPanic /\ wrapper.invoked = <<>>
    /\ wrapper.pc \in {"returned", "callPanicked"} =>
          /\ Len(wrapper.stringArgs) # Len(wrapper.function.in) => wrapper.pc = "callPanicked"
          /\ CalledWithNumArgs /\ ~AllTextsValid => wrapper.pc = "callPanicked"
          /\ wrapper.pc = "returned" => Len(wrapper.invoked) = 1

C29_Witness ==
    /\ wrapper.pc = "callPanicked"
    /\ wrapper.by = "WithStringArgsError"
    /\ CalledWithNumArgs
    /\ Len(wrapper.stringArgs) = 2
    /\ ValidText(wrapper.function.in[1], wrapper.stringArgs[1])
    /\ ~ValidText(wrapper.function.in[2], wrapper.stringArgs[2])
    /\ wrapper.invoked = <<>>

\* the fragments one after the other, a newline between two of them
RECURSIVE Lines(_)
Lines(fragments) ==
    IF fragments = <<>> THEN <<>>
    ELSE IF Len(fragments) = 1 THEN fragments[1]
    ELSE Lines(SubSeq(fragments, 1, Len(fragments) - 1)) \o <<"\n">>
         \o fragments[Len(fragments)]

\* the text the claim gives New(code, fragments...)
NewText(code, fragments) ==
    IF Lines(fragments) = <<>> THEN StatusText(code) ELSE Lines(fragments)

\* C24: the text of httperr.New(code, fragments...) is the fragments joined
\* with newlines, or the standard status text of code when no text is given
\* (no fragment, or an empty one); its rendering is one http.Error with that
\* text as body and code as status.
C24_NewTextAndStatus ==
    \A code \in StatusCodes, fragments \in StatusTexts \cup {<<<<>>>>} :
        /\ ErrorText(New(code, fragments)) = NewText(code, fragments)
        /\ (call.op \in {"Handle", "DefaultHandlerImpl", "WriteHandler"}
               /\ (call.op = "Handle" => call.called = <<"DefaultHandlerImpl">>)
               /\ call.err = New(code, fragments))
           => /\ call.ret = TRUE
              /\ call.writer = <<[call |-> "http.Error",
                                  text |-> NewText(code, fragments), code |-> code]>>

C24_Witness ==
    /\ call.op = "WriteHandler"
    /\ call.err = New(StatusNotFound, <<<<"first line">>, <<"second line">>>>)
    /\ call.writer = <<[call |-> "http.Error",
                        text |-> <<"first line", "\n", "second line">>, code |-> 404]>>

\* err is opaque: no layer of it is an http.Handler and it wraps no key of
\* SentinelHandlers
Opaque(err) == err # NilErr /\ HandlerLayers(err) = {} /\ RegisteredIn(err) = {}

\* the one response for an opaque error when no detail is shown
GenericInternalServerError ==
    <<[call |-> "http.Error", text |-> <<"Internal Server Error">>, code |-> 500]>>

\* C25: while DebugShowInternalErrorsInResponse is false, as it is initially,
\* the response DefaultHandlerImpl writes for an opaque error does not depend
\* on the error: it is status 500 with body "Internal Server Error", and
\* every other opaque error dispatched in the same configuration gets the
\* identical response.
C25_OpaqueResponseIndependentOfError ==
    (Dispatched /\ Opaque(call.err) /\ ~DebugShowInternalErrorsInResponse)
    => /\ call.writer = GenericInternalServerError
       /\ \A other \in ErrsUpTo(1) :
             Opaque(other) =>
                \A o \in DefaultHandlerImpl(other) : o.writer = call.writer

C25_Witness ==
    /\ call.op = "DefaultHandlerImpl"
    /\ ~DebugShowInternalErrorsInResponse
    /\ call.err = Wrap("ctx", ErrorsNew(<<"connection refused">>))
    /\ call.writer = GenericInternalServerError

\* the positions of the handlers of the call that write a response for its
\* error
WritingHandlers ==
    {i \in 1..Len(call.handlers) :
        \E o \in HandleError(call.handlers[i], call.err) : o.writer # <<>>}

\* C26: ForEachHandler prevents no duplicate write: for a non-nil error the
\* writer receives one response from each passed handler that writes one, in
\* the handlers' order, so k handlers that write unconditionally leave k
\* responses on the same writer.
C26_OneWritePerWritingHandler ==
    (call.op = "ForEachHandler" /\ call.err # NilErr)
    => /\ Len(call.writer) = Cardinality(WritingHandlers)
       /\ (\A i \in 1..Len(call.handlers) : call.handlers[i] = "DefaultHandlerImpl")
             => Len(call.writer) = Len(call.handlers)
       /\ \A i \in 1..Len(call.handlers) :
             i \in WritingHandlers =>
                \E o \in HandleError(call.handlers[i], call.err) :
                   o.writer = <<call.writer[Cardinality({j \in WritingHandlers : j <= i})]>>

C26_Witness ==
    /\ call.op = "ForEachHandler"
    /\ ~DebugShowInternalErrorsInResponse
    /\ call.err = ErrorsNew(<<"disk full">>)
    /\ call.handlers = <<"DefaultHandlerImpl", "DefaultHandlerImpl">>
    /\ call.writer = GenericInternalServerError \o GenericInternalServerError

\* ServeHTTP of respond.JSON, XML, HTML or Plaintext has run with the default
\* DefaultHandler and CatchPanics set
ServedWithDefaults ==
    /\ call.op \in {"JSON", "XML", "HTML", "Plaintext"}
    /\ DefaultHandler = "DefaultHandlerImpl"
    /\ CatchPanics

\* the handler function of the call returned a nil error
Succeeded == call.val.does = "return" /\ call.val.err = NilErr

\* C27: with the default DefaultHandler and CatchPanics set, a ServeHTTP call
\* of respond.JSON, XML, HTML or Plaintext ends, without a panic, with exactly
\* one response on the writer: an error response when the handler function
\* returned a non-nil error or panicked, and otherwise the success body, or
\* one 500 when the response does not encode; no success body follows an
\* error response and the deferred HandlePanic adds nothing without a panic.
C27_ExactlyOneResponse ==
    ServedWithDefaults
    => /\ ~Panics(call.writer)
       /\ Len(call.writer) = 1
       /\ ~Succeeded => call.writer[1].call # "Write"
       /\ Succeeded =>
             IF call.op \in {"HTML", "Plaintext"} \/ call.val.response.marshals
             THEN call.writer = <<WriteBody(call.op, call.val.response.text)>>
             ELSE call.writer[1].call = "http.Error" /\ call.writer[1].code = 500

\* C30: in the revisions with `defer httperr.Handle(httperr.Recover(), ...)`,
\* with CatchPanics set a panic of the handler function does not leave
\* ServeHTTP and an error response is written for it.
C30_DeferredHandleRecovers ==
    (call.op \in DeferHandleKinds /\ call.val.does = "panic" /\ CatchPanics)
    => /\ ~Panics(call.writer)
       /\ Len(call.writer) = 1
       /\ call.writer[1].call # "Write"

====
